---- MODULE Spec2Model ----
(***************************************************************************)
(* Model of the expense-ledger example of the GPT-4o course material:      *)
(*   - custom_sum  (utils/custom_sum.py, processing_data_with_python.md)   *)
(*   - get_sum     (utils/get_sum.py,    processing_data_with_python.md)   *)
(*   - the receipt cells of gpt4o-setup.ipynb (function call, read_csv,    *)
(*     new_rows loop, append, to_csv).                                     *)
(*                                                                         *)
(* Money is counted in cents.  A date string "YYYY-MM-DD" is the tuple     *)
(* <<y, m, d>>; a pandas Timestamp is the integer y*10000 + m*100 + d,     *)
(* which orders dates as Timestamps are ordered.                           *)
(***************************************************************************)
EXTENDS Integers, Sequences, FiniteSets, TLC

VARIABLES
  expenses_df,   \* the in-memory DataFrame of the caller
  time_range,    \* argument of the last custom_sum call
  cs,            \* how the last custom_sum call ended
  csv,           \* the file expenses.csv
  nb,            \* the notebook cell that runs next
  nb_response,   \* the notebook's response: the provider's reply to the receipt request
  receipt_data,  \* the notebook's receipt_data
  nb_end,        \* how the last notebook cell ended
  response,      \* the provider's reply inside the last get_sum call
  gs             \* how the last get_sum call ended

vars == <<expenses_df, time_range, cs, csv, nb, nb_response, receipt_data, nb_end,
          response, gs>>

(***************************************************************************)
(* Bounds                                                                  *)
(***************************************************************************)
MaxRows == 2

(***************************************************************************)
(* Values                                                                  *)
(***************************************************************************)
Columns == <<"Date", "Vendor", "Name", "Quantity", "Price", "Category", "Payment method">>

\* Cells of the Date column: the CSV text, or the Timestamp pd.to_datetime makes.
StrDate(ymd)   == [repr |-> "str", ymd |-> ymd]
Timestamp(n)   == [repr |-> "datetime64", ts |-> n]

\* Variant: a Timestamp converted again comes out a day later.
to_datetimeShift(c) ==
  IF c.repr = "str"
    THEN Timestamp(c.ymd[1] * 10000 + c.ymd[2] * 100 + c.ymd[3])
    ELSE Timestamp(c.ts + 1)

\* pd.to_datetime on one value: parses a date string, keeps a Timestamp.
to_datetime(c) ==
  IF c.repr = "str"
    THEN Timestamp(c.ymd[1] * 10000 + c.ymd[2] * 100 + c.ymd[3])
    ELSE c

\* Series.dt.year / Series.dt.month of a Timestamp.
dt_year(t)  == t.ts \div 10000
dt_month(t) == (t.ts \div 100) % 100
dt_day(t)   == t.ts % 100

\* The text a Date cell is written as: the string itself, a Timestamp as YYYY-MM-DD.
DateText(c) ==
  IF c.repr = "str" THEN c ELSE StrDate(<<dt_year(c), dt_month(c), dt_day(c)>>)

(***************************************************************************)
(* DataFrames: the column labels and the rows, each row a function from    *)
(* column label to cell.                                                   *)
(***************************************************************************)
DataFrame(cols, rows) == [cols |-> cols, rows |-> rows]

HasColumn(df, c) == \E i \in DOMAIN df.cols : df.cols[i] = c

Row(date, vendor, name, quantity, price, category, payment) ==
  ("Date" :> date) @@ ("Vendor" :> vendor) @@ ("Name" :> name) @@
  ("Quantity" :> quantity) @@ ("Price" :> price) @@
  ("Category" :> category) @@ ("Payment method" :> payment)

\* Variant: the sum of price times quantity.
RECURSIVE PriceSumQty(_)
PriceSumQty(rows) ==
  IF rows = <<>> THEN 0
  ELSE Head(rows)["Price"] * Head(rows)["Quantity"] + PriceSumQty(Tail(rows))

\* Series.sum() of the Price column: the fold from 0, so an empty Series sums to 0.
RECURSIVE PriceSumFrom(_, _)
PriceSumFrom(start, rows) ==
  IF rows = <<>> THEN start
  ELSE PriceSumFrom(start + Head(rows)["Price"], Tail(rows))

\* Variant: a reduction with no value for an empty Series.
PriceSumNoEmpty(rows) == IF rows = <<>> THEN -1 ELSE PriceSumFrom(0, rows)

PriceSum(rows) == PriceSumFrom(0, rows)

(***************************************************************************)
(* custom_sum(time_range, expenses_df)                                     *)
(***************************************************************************)
\* 'k' in time_range
HasKey(d, k) == k \in DOMAIN d

\* expenses_df['Date'] = pd.to_datetime(expenses_df['Date']): assigns the
\* converted column into the caller's DataFrame.
ConvertDateColumn(df) ==
  [df EXCEPT !.rows =
     [i \in DOMAIN df.rows |-> [df.rows[i] EXCEPT !["Date"] = to_datetime(@)]]]

\* expenses_df[expenses_df['Date'] == specific_date]
FilterSpecificDate(tr, rows) ==
  LET specific_date == to_datetime(StrDate(tr["specific_date"]))
  IN  SelectSeq(rows, LAMBDA r : r["Date"].ts = specific_date.ts)

\* Variant: the end date left out of the range.
FilterDateRangeOpenEnd(tr, rows) ==
  LET start_date == to_datetime(StrDate(tr["start_date"]))
      end_date   == to_datetime(StrDate(tr["end_date"]))
  IN  SelectSeq(rows, LAMBDA r : r["Date"].ts >= start_date.ts /\ r["Date"].ts < end_date.ts)

\* expenses_df[(expenses_df['Date'] >= start_date) & (expenses_df['Date'] <= end_date)]
FilterDateRange(tr, rows) ==
  LET start_date == to_datetime(StrDate(tr["start_date"]))
      end_date   == to_datetime(StrDate(tr["end_date"]))
  IN  SelectSeq(rows, LAMBDA r : r["Date"].ts >= start_date.ts /\ r["Date"].ts <= end_date.ts)

\* Variant: the month compared, the year not.
FilterMonthYearAnyYear(tr, rows) ==
  LET month == tr["month"]
  IN  SelectSeq(rows, LAMBDA r : dt_month(r["Date"]) = month)

\* expenses_df[(expenses_df['Date'].dt.month == month) & (expenses_df['Date'].dt.year == year)]
FilterMonthYear(tr, rows) ==
  LET month == tr["month"]
      year  == tr["year"]
  IN  SelectSeq(rows, LAMBDA r : dt_month(r["Date"]) = month /\ dt_year(r["Date"]) = year)

\* expenses_df[expenses_df['Date'].dt.year == year]
FilterYear(tr, rows) ==
  LET year == tr["year"]
  IN  SelectSeq(rows, LAMBDA r : dt_year(r["Date"]) = year)

Filtered(rows) == [raised |-> FALSE, rows |-> rows]
InvalidTime    == [raised |-> TRUE,  rows |-> <<>>]

\* Variant: 'year' tested before the date range and the month.
SelectFilterYearFirst(tr, rows) ==
  IF HasKey(tr, "specific_date") THEN Filtered(FilterSpecificDate(tr, rows))
  ELSE IF HasKey(tr, "year") THEN Filtered(FilterYear(tr, rows))
  ELSE IF HasKey(tr, "start_date") /\ HasKey(tr, "end_date")
    THEN Filtered(FilterDateRange(tr, rows))
  ELSE InvalidTime

\* Variant: no recognized key keeps every row instead of raising.
SelectFilterMatchAll(tr, rows) ==
  IF HasKey(tr, "specific_date") THEN Filtered(FilterSpecificDate(tr, rows))
  ELSE IF HasKey(tr, "start_date") /\ HasKey(tr, "end_date")
    THEN Filtered(FilterDateRange(tr, rows))
  ELSE IF HasKey(tr, "month") /\ HasKey(tr, "year")
    THEN Filtered(FilterMonthYear(tr, rows))
  ELSE IF HasKey(tr, "year") THEN Filtered(FilterYear(tr, rows))
  ELSE Filtered(rows)

\* The if / elif chain of custom_sum over the converted rows.
SelectFilter(tr, rows) ==
  IF HasKey(tr, "specific_date") THEN Filtered(FilterSpecificDate(tr, rows))
  ELSE IF HasKey(tr, "start_date") /\ HasKey(tr, "end_date")
    THEN Filtered(FilterDateRange(tr, rows))
  ELSE IF HasKey(tr, "month") /\ HasKey(tr, "year")
    THEN Filtered(FilterMonthYear(tr, rows))
  ELSE IF HasKey(tr, "year") THEN Filtered(FilterYear(tr, rows))
  ELSE InvalidTime

\* How a call ends: the value returned, or the exception raised.
Returned(v) == [outcome |-> "return", value |-> v, exc |-> "none"]
Raised(e)   == [outcome |-> "raise", value |-> 0, exc |-> e]
NotCalled   == [outcome |-> "none", value |-> 0, exc |-> "none"]

\* The whole of custom_sum: the caller's table after the call, and the outcome.
custom_sum(tr, df) ==
  IF ~ HasColumn(df, "Date")
    THEN [df |-> df, end |-> Raised("KeyError")]
    ELSE LET converted == ConvertDateColumn(df)
             f == SelectFilter(tr, converted.rows)
         IN  IF f.raised
               THEN [df |-> converted, end |-> Raised("ValueError")]
               ELSE [df |-> converted, end |-> Returned(PriceSum(f.rows))]

(***************************************************************************)
(* The provider's reply and the JSON text of a tool call's arguments.      *)
(***************************************************************************)
\* JSON text: either not JSON at all, or an object given by its members in
\* the order written, each <<key, value>>.
JsonObject(members) == [wellformed |-> TRUE, members |-> members]
NotJson             == [wellformed |-> FALSE, members |-> <<>>]

\* The dict of a member list: a later member replaces an earlier one of the same key.
RECURSIVE DictOf(_)
DictOf(members) ==
  IF members = <<>> THEN <<>>
  ELSE LET n == Len(members)
       IN  (members[n][1] :> members[n][2]) @@ DictOf(SubSeq(members, 1, n - 1))

\* json.loads(arguments): the dict of the object, the objects under "items"
\* parsed as well; JSONDecodeError on text that is not JSON.
json_loads(text) ==
  IF ~ text.wellformed THEN [raised |-> TRUE, value |-> <<>>]
  ELSE LET d == DictOf(text.members)
       IN  [raised |-> FALSE,
            value  |-> IF HasKey(d, "items")
                         THEN [d EXCEPT !["items"] = [i \in DOMAIN @ |-> DictOf(@[i])]]
                         ELSE d]

ToolCall(name, arguments) == [name |-> name, arguments |-> arguments]

\* message.tool_calls: None, or the list of calls.
NoToolCalls      == [isNone |-> TRUE,  calls |-> <<>>]
ToolCalls(calls) == [isNone |-> FALSE, calls |-> calls]

\* A ChatCompletion with its choices, each choice a message with content and tool_calls.
Message(content, tool_calls) == [content |-> content, tool_calls |-> tool_calls]
Completion(choices)          == [isNone |-> FALSE, choices |-> choices]
NoCompletion                 == [isNone |-> TRUE,  choices |-> <<>>]

\* response.choices[0].message.tool_calls[0].function.arguments: the exception
\* the expression raises, "none" when it evaluates.
FirstArgumentsError(resp) ==
  IF resp.isNone THEN "AttributeError"
  ELSE IF resp.choices = <<>> THEN "IndexError"
  ELSE IF resp.choices[1].tool_calls.isNone THEN "TypeError"
  ELSE IF resp.choices[1].tool_calls.calls = <<>> THEN "IndexError"
  ELSE "none"

FirstCall(resp) == resp.choices[1].tool_calls.calls[1]

(***************************************************************************)
(* get_sum(message, expenses_df)                                           *)
(***************************************************************************)
GetSumEnd(kind, value, exc) == [outcome |-> kind, value |-> value, exc |-> exc]
GetSumIdle == GetSumEnd("none", 0, "none")

\* if response:
Truthy(resp) == ~ resp.isNone

\* Variant: any first tool call taken for a custom_sum call.
IsAnyToolCall(resp) ==
  /\ ~ resp.choices[1].tool_calls.isNone
  /\ Len(resp.choices[1].tool_calls.calls) > 0

\* tool_calls is not None and len(tool_calls) > 0 and tool_calls[0].function.name == "custom_sum"
IsCustomSumCall(resp) ==
  /\ ~ resp.choices[1].tool_calls.isNone
  /\ Len(resp.choices[1].tool_calls.calls) > 0
  /\ FirstCall(resp).name = "custom_sum"

\* The body of get_sum below the print of its first line.
get_sum_body(resp, df) ==
  IF Truthy(resp)
    THEN IF IsCustomSumCall(resp)
           THEN LET parsed == json_loads(FirstCall(resp).arguments)
                IN  IF parsed.raised
                      THEN [df |-> df, called |-> FALSE, tr |-> <<>>, cs |-> NotCalled,
                            end |-> GetSumEnd("raise", 0, "JSONDecodeError")]
                      ELSE LET r == custom_sum(parsed.value, df)
                           IN  [df |-> r.df, called |-> TRUE, tr |-> parsed.value, cs |-> r.end,
                                end |-> IF r.end.outcome = "return"
                                          THEN GetSumEnd("sum", r.end.value, "none")
                                          ELSE GetSumEnd("raise", 0, r.end.exc)]
           ELSE [df |-> df, called |-> FALSE, tr |-> <<>>, cs |-> NotCalled,
                 end |-> GetSumEnd("warning", 0, "none")]
    ELSE [df |-> df, called |-> FALSE, tr |-> <<>>, cs |-> NotCalled,
          end |-> GetSumEnd("no response", 0, "none")]

\* get_sum: the print of the first tool call's arguments, then the body.
get_sum(resp, df) ==
  IF FirstArgumentsError(resp) # "none"
    THEN [df |-> df, called |-> FALSE, tr |-> <<>>, cs |-> NotCalled,
          end |-> GetSumEnd("raise", 0, FirstArgumentsError(resp))]
    ELSE get_sum_body(resp, df)

(***************************************************************************)
(* The receipt cells of the notebook                                       *)
(***************************************************************************)
\* date.today().isoformat()
Today == <<2024, 6, 1>>

\* d.get(k, default)
Get(d, k, default) == IF HasKey(d, k) THEN d[k] ELSE default

CellOk == [outcome |-> "ok", value |-> 0, exc |-> "none"]

\* The notebook's stores before any receipt: the file holds the header line,
\* and read_csv of it is the empty DataFrame with the seven columns.
HeaderOnly == DataFrame(Columns, <<>>)

\* pd.read_csv("expenses.csv"): the rows of the file; an empty field reads as NaN.
ReadField(c) == IF c = "" THEN "NaN" ELSE c

read_csv(file) ==
  DataFrame(file.cols,
            [i \in DOMAIN file.rows |->
               [file.rows[i] EXCEPT !["Vendor"] = ReadField(@), !["Name"] = ReadField(@),
                                    !["Category"] = ReadField(@),
                                    !["Payment method"] = ReadField(@)]])

\* The text a cell is written as: NaN as the empty field (na_rep = '').
WriteField(c) == IF c = "NaN" THEN "" ELSE c

\* expenses_df.to_csv('expenses.csv', index=False): the header and every row
\* as text, a Timestamp written as its date.
to_csv(df) ==
  DataFrame(df.cols,
            [i \in DOMAIN df.rows |->
               [df.rows[i] EXCEPT !["Date"] = DateText(@),
                                  !["Vendor"] = WriteField(@), !["Name"] = WriteField(@),
                                  !["Category"] = WriteField(@),
                                  !["Payment method"] = WriteField(@)]])

\* Variant: quantity and price put in each other's column.
NewRowSwapped(data, item) ==
  Row(StrDate(Get(data, "date", Today)),
      Get(data, "vendor", ""),
      Get(item, "name", ""),
      Get(item, "price", 0),
      Get(item, "quantity", 1),
      Get(item, "category", "Uncategorized"),
      Get(data, "payment_method", "Unknown"))

\* The row the loop builds for one item of receipt_data.
NewRow(data, item) ==
  Row(StrDate(Get(data, "date", Today)),
      Get(data, "vendor", ""),
      Get(item, "name", ""),
      Get(item, "quantity", 1),
      Get(item, "price", 0),
      Get(item, "category", "Uncategorized"),
      Get(data, "payment_method", "Unknown"))

\* The new_rows loop: KeyError when receipt_data has no 'items' or an item has
\* no 'name' (the print of item['name']), else one row per item, in order.
new_rows(data) ==
  IF ~ HasKey(data, "items") THEN [raised |-> TRUE, rows |-> <<>>]
  ELSE IF \E i \in DOMAIN data["items"] : ~ HasKey(data["items"][i], "name")
    THEN [raised |-> TRUE, rows |-> <<>>]
  ELSE [raised |-> FALSE,
        rows   |-> [i \in DOMAIN data["items"] |-> NewRow(data, data["items"][i])]]

\* pd.DataFrame(new_rows): the columns are the keys of the rows; none without rows.
DataFrameOfRows(rows) == DataFrame(IF rows = <<>> THEN <<>> ELSE Columns, rows)

\* DataFrame.empty
Empty(df) == df.rows = <<>> \/ df.cols = <<>>

\* Variant: the new rows put in front of the old ones.
concatNewFirst(a, b) ==
  DataFrame(a.cols \o SelectSeq(b.cols, LAMBDA c : ~ HasColumn(a, c)), b.rows \o a.rows)

\* pd.concat([a, b], ignore_index=True)
concat(a, b) ==
  DataFrame(a.cols \o SelectSeq(b.cols, LAMBDA c : ~ HasColumn(a, c)), a.rows \o b.rows)

\* if expenses_df.empty: expenses_df = new_rows_df  else: concat
Appended(df, new_rows_df) == IF Empty(df) THEN new_rows_df ELSE concat(df, new_rows_df)

(***************************************************************************)
(* custom_sum on its own: any table of at most MaxRows records that carries *)
(* the seven columns, any time_range dictionary over the five keys of the  *)
(* function-call schema.                                                   *)
(***************************************************************************)
LedgerDates == {<<2023, 12, 31>>, <<2024, 5, 11>>, <<2024, 5, 16>>, <<2024, 12, 31>>}

\* Price in cents and quantity of the line items used.
LineItems == {[price |-> 4990, quantity |-> 1], [price |-> 2273, quantity |-> 2]}

LedgerRows ==
  { Row(StrDate(d), "Uniqlo", "hoodie", it.quantity, it.price, "clothing", "credit") :
      d \in LedgerDates, it \in LineItems }

SeqsUpTo(S, n) == UNION { [1..k -> S] : k \in 0..n }

Ledgers == { DataFrame(Columns, rows) : rows \in SeqsUpTo(LedgerRows, MaxRows) }

TimeRangeKeys == {"specific_date", "start_date", "end_date", "month", "year"}

\* Values for the five keys; a dictionary takes any subset of the keys of one of them.
FullTimeRanges ==
  { [specific_date |-> <<2024, 5, 11>>, start_date |-> <<2024, 5, 11>>,
     end_date |-> <<2024, 5, 16>>, month |-> 5, year |-> 2024],
    [specific_date |-> <<2024, 12, 31>>, start_date |-> <<2024, 5, 16>>,
     end_date |-> <<2024, 5, 11>>, month |-> 12, year |-> 2023],
    [specific_date |-> <<2023, 12, 31>>, start_date |-> <<2024, 5, 16>>,
     end_date |-> <<2024, 12, 31>>, month |-> 12, year |-> 2024] }

\* A dictionary holding the keys K of full.
Dict(full, K) == [k \in K |-> full[k]]

TimeRanges == { Dict(full, K) : full \in FullTimeRanges, K \in SUBSET TimeRangeKeys }

NoTimeRange == Dict([year |-> 0], {})

SumInit ==
  /\ expenses_df \in Ledgers
  /\ csv = to_csv(expenses_df)
  /\ time_range = NoTimeRange
  /\ cs = NotCalled
  /\ nb = "call"
  /\ nb_response = NoCompletion
  /\ receipt_data = NoTimeRange
  /\ nb_end = CellOk
  /\ response = NoCompletion
  /\ gs = GetSumIdle

\* requested_sum = custom_sum(time_range, expenses_df)
CallCustomSum(tr) ==
  LET r == custom_sum(tr, expenses_df)
  IN  /\ expenses_df' = r.df
      /\ time_range' = tr
      /\ cs' = r.end
      /\ UNCHANGED <<csv, nb, nb_response, receipt_data, nb_end, response, gs>>

SumNext == \E tr \in TimeRanges : CallCustomSum(tr)

SumSpec == SumInit /\ [][SumNext]_vars

(***************************************************************************)
(* The notebook and get_sum together: the provider's replies, the cells    *)
(* run in order, get_sum called on the notebook's expenses_df.             *)
(***************************************************************************)
Hoodie  == << <<"name", "hoodie">>, <<"price", 4990>>, <<"quantity", 1>>,
              <<"category", "clothing">> >>
Socks   == << <<"name", "socks">>, <<"price", 2273>>, <<"quantity", 2>>,
              <<"category", "clothing">> >>
BareTea == << <<"name", "tea">> >>
Unnamed == << <<"price", 2273>>, <<"quantity", 1>> >>

Receipt(date, items) ==
  << <<"vendor", "Uniqlo">>, <<"date", date>>, <<"items", items>>,
     <<"payment_method", "credit">> >>

ReceiptArguments ==
  { JsonObject(Receipt(<<2024, 5, 11>>, <<Hoodie>>)),
    JsonObject(Receipt(<<2024, 5, 16>>, <<Socks, Hoodie>>)),
    JsonObject(Receipt(<<2024, 5, 16>>, <<>>)),
    JsonObject(Receipt(<<2024, 5, 16>>, <<Unnamed>>)),
    JsonObject(<< <<"items", <<BareTea>> >> >>),
    JsonObject(<< <<"vendor", "Uniqlo">>, <<"date", <<2024, 5, 11>> >>,
                  <<"payment_method", "credit">> >>),
    NotJson }

TimeRangeArguments ==
  { JsonObject(<< <<"start_date", <<2024, 5, 11>> >>, <<"end_date", <<2024, 5, 16>> >> >>),
    JsonObject(<< <<"year", 2024>> >>),
    JsonObject(<< <<"month", 5>> >>),
    NotJson }

OneCall(name, arguments) ==
  Completion(<< Message("None", ToolCalls(<< ToolCall(name, arguments) >>)) >>)

\* Replies without a usable tool call: no completion object, no choices, a
\* plain-text message with tool_calls None, and one with an empty list.
PlainReplies ==
  { NoCompletion,
    Completion(<<>>),
    Completion(<< Message("Please provide a receipt.", NoToolCalls) >>),
    Completion(<< Message("Please provide a receipt.", ToolCalls(<<>>)) >>) }

\* The provider's replies to the notebook's receipt request.
ReceiptReplies ==
  (PlainReplies \ {NoCompletion})
  \cup { OneCall("itemize_receipt", a) : a \in ReceiptArguments }
  \cup { OneCall("custom_sum", JsonObject(<< <<"year", 2024>> >>)) }

\* The provider's replies to get_sum's question.
SumReplies ==
  PlainReplies
  \cup { OneCall("custom_sum", a) : a \in TimeRangeArguments }
  \cup { OneCall("itemize_receipt", JsonObject(Receipt(<<2024, 5, 11>>, <<Hoodie>>))),
         Completion(<< Message("None", ToolCalls(
           << ToolCall("itemize_receipt", JsonObject(Receipt(<<2024, 5, 11>>, <<Hoodie>>))),
              ToolCall("custom_sum", JsonObject(<< <<"year", 2024>> >>)) >>)) >>) }

\* The number of rows the notebook would add for a reply.
ItemCount(r) ==
  IF FirstArgumentsError(r) # "none" THEN 0
  ELSE LET parsed == json_loads(FirstCall(r).arguments)
       IN  IF parsed.raised \/ ~ HasKey(parsed.value, "items") THEN 0
           ELSE Len(parsed.value["items"])

Init ==
  /\ csv = to_csv(HeaderOnly)
  /\ expenses_df = read_csv(csv)
  /\ time_range = NoTimeRange
  /\ cs = NotCalled
  /\ nb = "call"
  /\ nb_response = NoCompletion
  /\ receipt_data = NoTimeRange
  /\ nb_end = CellOk
  /\ response = NoCompletion
  /\ gs = GetSumIdle

\* The function-calling cell: the request, then
\* receipt_data = json.loads(response.choices[0].message.tool_calls[0].function.arguments)
FunctionCallCell(r) ==
  /\ nb = "call"
  /\ Len(csv.rows) + ItemCount(r) <= MaxRows
  /\ nb_response' = r
  /\ IF FirstArgumentsError(r) # "none"
       THEN /\ nb_end' = Raised(FirstArgumentsError(r))
            /\ UNCHANGED <<nb, receipt_data>>
       ELSE LET parsed == json_loads(FirstCall(r).arguments)
            IN  IF parsed.raised
                  THEN /\ nb_end' = Raised("JSONDecodeError")
                       /\ UNCHANGED <<nb, receipt_data>>
                  ELSE /\ nb_end' = CellOk
                       /\ receipt_data' = parsed.value
                       /\ nb' = "read"
  /\ UNCHANGED <<expenses_df, csv, time_range, cs, response, gs>>

\* expenses_df = pd.read_csv("expenses.csv"): EmptyDataError on a file without a header.
ReadCsvCell ==
  /\ nb = "read"
  /\ IF csv.cols = <<>>
       THEN /\ nb_end' = Raised("EmptyDataError")
            /\ nb' = "call"
            /\ UNCHANGED expenses_df
       ELSE /\ nb_end' = CellOk
            /\ nb' = "rows"
            /\ expenses_df' = read_csv(csv)
  /\ UNCHANGED <<csv, time_range, cs, nb_response, receipt_data, response, gs>>

\* The new_rows loop, pd.DataFrame(new_rows) and the append to expenses_df.
NewRowsCell ==
  /\ nb = "rows"
  /\ LET built == new_rows(receipt_data)
     IN  IF built.raised
           THEN /\ nb_end' = Raised("KeyError")
                /\ nb' = "call"
                /\ UNCHANGED expenses_df
           ELSE /\ nb_end' = CellOk
                /\ nb' = "write"
                /\ expenses_df' = Appended(expenses_df, DataFrameOfRows(built.rows))
  /\ UNCHANGED <<csv, time_range, cs, nb_response, receipt_data, response, gs>>

\* expenses_df.to_csv('expenses.csv', index=False)
ToCsvCell ==
  /\ nb = "write"
  /\ csv' = to_csv(expenses_df)
  /\ nb' = "call"
  /\ nb_end' = CellOk
  /\ UNCHANGED <<expenses_df, time_range, cs, nb_response, receipt_data, response, gs>>

\* print(f"Sum: {get_sum(message, expenses_df)}") with the provider replying r.
GetSum(r) ==
  LET g == get_sum(r, expenses_df)
  IN  /\ response' = r
      /\ gs' = g.end
      /\ expenses_df' = g.df
      /\ time_range' = g.tr
      /\ cs' = g.cs
      /\ UNCHANGED <<csv, nb, nb_response, receipt_data, nb_end>>

Next ==
  \/ \E r \in ReceiptReplies : FunctionCallCell(r)
  \/ ReadCsvCell
  \/ NewRowsCell
  \/ ToCsvCell
  \/ \E r \in SumReplies : GetSum(r)

Spec == Init /\ [][Next]_vars

(***************************************************************************)
(* The time-range policy as the specification words it, on calendar dates. *)
(***************************************************************************)
\* The calendar date <<y, m, d>> a Date cell stands for, whatever its representation.
DateOf(c) ==
  IF c.repr = "str" THEN c.ymd
  ELSE <<c.ts \div 10000, (c.ts \div 100) % 100, c.ts % 100>>

DateLeq(a, b) ==
  \/ a[1] < b[1]
  \/ a[1] = b[1] /\ a[2] < b[2]
  \/ a[1] = b[1] /\ a[2] = b[2] /\ a[3] <= b[3]

OnDate(r, d)         == DateOf(r["Date"]) = d
InRange(r, s, e)     == DateLeq(s, DateOf(r["Date"])) /\ DateLeq(DateOf(r["Date"]), e)
InMonthYear(r, m, y) == DateOf(r["Date"])[2] = m /\ DateOf(r["Date"])[1] = y
InYear(r, y)         == DateOf(r["Date"])[1] = y

\* The prices of the rows at the positions I, added up.
RECURSIVE TotalAt(_, _)
TotalAt(rows, I) ==
  IF I = {} THEN 0
  ELSE LET i == CHOOSE j \in I : TRUE
       IN  rows[i]["Price"] + TotalAt(rows, I \ {i})

Total(rows) == TotalAt(rows, DOMAIN rows)

SpecificDateRows == SelectSeq(expenses_df.rows, LAMBDA r : OnDate(r, time_range["specific_date"]))
DateRangeRows ==
  SelectSeq(expenses_df.rows, LAMBDA r : InRange(r, time_range["start_date"], time_range["end_date"]))
MonthYearRows ==
  SelectSeq(expenses_df.rows, LAMBDA r : InMonthYear(r, time_range["month"], time_range["year"]))
YearRows == SelectSeq(expenses_df.rows, LAMBDA r : InYear(r, time_range["year"]))

Called       == cs.outcome # "none"
Has(k)       == k \in DOMAIN time_range
Recognized   ==
  \/ Has("specific_date")
  \/ Has("start_date") /\ Has("end_date")
  \/ Has("year")

\* C1: custom_sum picks its filter by a strict priority chain, first match wins:
\* 'specific_date' beats every other key, then 'start_date' with 'end_date',
\* then 'month' with 'year', then 'year' alone.
C1_PriorityChain ==
  Called =>
    IF Has("specific_date") THEN cs = Returned(Total(SpecificDateRows))
    ELSE IF Has("start_date") /\ Has("end_date") THEN cs = Returned(Total(DateRangeRows))
    ELSE IF Has("month") /\ Has("year") THEN cs = Returned(Total(MonthYearRows))
    ELSE IF Has("year") THEN cs = Returned(Total(YearRows))
    ELSE TRUE

\* A call with all five keys present, where the date wins over a year that
\* would have summed to something else.
C1_Witness ==
  /\ Called
  /\ DOMAIN time_range = TimeRangeKeys
  /\ cs = Returned(Total(SpecificDateRows))
  /\ Total(SpecificDateRows) # Total(YearRows)
  /\ Total(SpecificDateRows) # Total(DateRangeRows)
  /\ Total(SpecificDateRows) > 0

\* The rows the code's filter keeps for the dictionary of the last call.
KeptRows == SelectFilter(time_range, ConvertDateColumn(expenses_df).rows)

WithQuantity(df, q) ==
  [df EXCEPT !.rows = [i \in DOMAIN df.rows |-> [df.rows[i] EXCEPT !["Quantity"] = q]]]

\* C3: the value returned is the sum of the Price field alone over the rows
\* kept: it is the same whatever the quantities are, and the two records of
\* the documented example (49.90 on 2024-05-11, 22.73 on 2024-05-16) give
\* 72.63 for the range 2024-05-11 .. 2024-05-16.
C3_PriceOnly ==
  (Called /\ cs.outcome = "return") =>
    /\ \A q \in 0..3 : custom_sum(time_range, WithQuantity(expenses_df, q)).end = cs
    /\ ( /\ Len(expenses_df.rows) = 2
         /\ OnDate(expenses_df.rows[1], <<2024, 5, 11>>) /\ expenses_df.rows[1]["Price"] = 4990
         /\ OnDate(expenses_df.rows[2], <<2024, 5, 16>>) /\ expenses_df.rows[2]["Price"] = 2273
         /\ time_range = [start_date |-> <<2024, 5, 11>>, end_date |-> <<2024, 5, 16>>] )
       => cs = Returned(7263)

\* The documented example, with a quantity of 2 on the second record.
C3_Witness ==
  /\ Len(expenses_df.rows) = 2
  /\ OnDate(expenses_df.rows[1], <<2024, 5, 11>>) /\ expenses_df.rows[1]["Price"] = 4990
  /\ OnDate(expenses_df.rows[2], <<2024, 5, 16>>) /\ expenses_df.rows[2]["Price"] = 2273
  /\ expenses_df.rows[2]["Quantity"] = 2
  /\ time_range = [start_date |-> <<2024, 5, 11>>, end_date |-> <<2024, 5, 16>>]
  /\ cs = Returned(7263)

\* The rows the specification's policy keeps for the dictionary of the last call.
PolicyRows ==
  IF Has("specific_date") THEN SpecificDateRows
  ELSE IF Has("start_date") /\ Has("end_date") THEN DateRangeRows
  ELSE IF Has("month") /\ Has("year") THEN MonthYearRows
  ELSE YearRows

C4_WitnessEmptyLedger ==
  /\ Called /\ Recognized
  /\ expenses_df.rows = <<>>
  /\ cs = Returned(0)

\* C5: a time_range with none of the recognized variants (no 'specific_date',
\* not both 'start_date' and 'end_date', no 'year') makes custom_sum fail with
\* the invalid-time-range error (ValueError "Invalid time specification."); no
\* sum comes back.
C5_InvalidTimeRange ==
  (Called /\ ~ Recognized) => cs = Raised("ValueError")

\* A lone 'month' on a ledger that has records.
C5_Witness ==
  /\ Called
  /\ DOMAIN time_range = {"month"}
  /\ expenses_df.rows # <<>>
  /\ cs = Raised("ValueError")

AllInYear(df, y) == \A i \in DOMAIN df.rows : InYear(df.rows[i], y)

YearDict(y)      == [year |-> y]
WholeYearDict(y) == [start_date |-> <<y, 1, 1>>, end_date |-> <<y, 12, 31>>]

\* C10: on a ledger whose dates all lie in year y, custom_sum with Year(y)
\* returns what custom_sum with DateRange(y-01-01, y-12-31) returns.
C10_YearIsWholeYearRange ==
  \A y \in {2023, 2024} :
    (Called /\ time_range = YearDict(y) /\ AllInYear(expenses_df, y)) =>
      /\ cs.outcome = "return"
      /\ custom_sum(WholeYearDict(y), expenses_df).end = cs

\* Year(2024) on a ledger of 2024 with a record on the last day of the year.
C10_Witness ==
  /\ Called
  /\ time_range = YearDict(2024)
  /\ AllInYear(expenses_df, 2024)
  /\ \E i \in DOMAIN expenses_df.rows : OnDate(expenses_df.rows[i], <<2024, 12, 31>>)
  /\ cs.outcome = "return" /\ cs.value > 0

\* C6: custom_sum does not mutate the ledger: after any call, returning or
\* failing, the caller's table holds the same records with the same values and
\* representations as before.
C6_NoMutation == [][expenses_df' = expenses_df]_vars

\* The reply get_sum received, by what the provider chose to do.
Answered      == gs.outcome # "none"
HasChoice     == ~ response.isNone /\ response.choices # <<>>
InvokedNoTool ==
  /\ HasChoice
  /\ \/ response.choices[1].tool_calls.isNone
     \/ response.choices[1].tool_calls.calls = <<>>
InvokedCustomSum ==
  /\ HasChoice
  /\ ~ response.choices[1].tool_calls.isNone
  /\ response.choices[1].tool_calls.calls # <<>>
  /\ response.choices[1].tool_calls.calls[1].name = "custom_sum"

\* C7: every reply of the provider gets its tagged result: without a tool call
\* (tool_calls None or empty) get_sum ends on its plain-text branch, reporting
\* the content and raising nothing; with a call of custom_sum it ends on the
\* tool branch.
C7_TaggedResult ==
  Answered =>
    /\ InvokedNoTool => gs = GetSumEnd("warning", 0, "none")
    /\ InvokedCustomSum => gs.outcome \in {"sum", "raise"}

\* C8: a response without choices ends get_sum on its 'No response received'
\* branch, and in no other failure.
C8_NoResponse ==
  (Answered /\ ~ response.isNone /\ response.choices = <<>>) =>
    gs = GetSumEnd("no response", 0, "none")

RequiredFields == {"vendor", "date", "items", "payment_method"}

Wellformed(resp) ==
  FirstArgumentsError(resp) = "none" /\ FirstCall(resp).arguments.wellformed

\* C9: tool arguments that are not valid JSON, or that lack a required field
\* of itemize_receipt (vendor, date, items, payment_method), fail the
\* pipeline: the notebook gets past the parse only on valid JSON and past the
\* append (nb = "write") only with every required field present, and get_sum
\* returns no sum.
C9_MalformedResponse ==
  /\ nb # "call" => Wellformed(nb_response)
  /\ nb = "write" => RequiredFields \subseteq DOMAIN receipt_data
  /\ gs.outcome = "sum" => Wellformed(response)

\* C11: the ledger is append-only: a completed append step adds one record per
\* line item of the parsed receipt, after the records that were there, which
\* stay unchanged and in their order.
C11_AppendOnly ==
  [][(nb = "rows" /\ nb' = "write") =>
       LET n == Len(expenses_df.rows)
           items == receipt_data["items"]
       IN  /\ Len(expenses_df'.rows) = n + Len(items)
           /\ SubSeq(expenses_df'.rows, 1, n) = expenses_df.rows
           /\ \A i \in DOMAIN items :
                expenses_df'.rows[n + i]["Name"] = items[i]["name"]]_vars

\* An append has just put a receipt's rows behind rows of an earlier receipt.
C11_Witness ==
  /\ nb = "write"
  /\ nb_end = CellOk
  /\ csv.rows # <<>>
  /\ Len(expenses_df.rows) > Len(csv.rows)
  /\ expenses_df.rows[1]["Name"] # expenses_df.rows[Len(expenses_df.rows)]["Name"]

(***************************************************************************)
(* Receipts in the shape of the itemize_receipt schema: the notebook cells *)
(* fed with the JSON text of well-formed receipts only.                    *)
(***************************************************************************)
\* Line items: name, price in cents >= 0, quantity >= 0, category of the enum.
ItemKinds ==
  { [name |-> "hoodie", price |-> 4990, quantity |-> 1, category |-> "clothing"],
    [name |-> "socks",  price |-> 2273, quantity |-> 2, category |-> "clothing"],
    [name |-> "bag",    price |-> 0,    quantity |-> 0, category |-> "other"] }

\* One date, vendor and payment method, and the line items in order.
WellFormedReceipts ==
  [date    : {<<2024, 5, 11>>, <<2024, 5, 16>>},
   vendor  : {"Uniqlo"},
   payment : {"credit", "cash"},
   items   : SeqsUpTo(ItemKinds, MaxRows)]

\* The expense records of a receipt: one per line item, sharing date, vendor
\* and payment method.
ExpenseRecords(rc) ==
  [i \in DOMAIN rc.items |->
     Row(StrDate(rc.date), rc.vendor, rc.items[i].name, rc.items[i].quantity,
         rc.items[i].price, rc.items[i].category, rc.payment)]

\* The members of the JSON object the schema describes for a receipt.
EncodeItem(it) ==
  << <<"name", it.name>>, <<"price", it.price>>, <<"quantity", it.quantity>>,
     <<"category", it.category>> >>

EncodeReceipt(rc) ==
  << <<"vendor", rc.vendor>>, <<"date", rc.date>>,
     <<"items", [i \in DOMAIN rc.items |-> EncodeItem(rc.items[i])]>>,
     <<"payment_method", rc.payment>> >>

EncodedReply(rc) == OneCall("itemize_receipt", JsonObject(EncodeReceipt(rc)))

ReceiptNext ==
  \/ \E rc \in WellFormedReceipts : FunctionCallCell(EncodedReply(rc))
  \/ ReadCsvCell
  \/ NewRowsCell
  \/ ToCsvCell

ReceiptSpec == Init /\ [][ReceiptNext]_vars

\* The last n rows of the in-memory table.
LastRows(n) ==
  SubSeq(expenses_df.rows, Len(expenses_df.rows) - n + 1, Len(expenses_df.rows))

\* C12: parsing round trip: the JSON text of a well-formed receipt, parsed and
\* turned into ledger rows, gives back its expense records field for field
\* (date, vendor, name, quantity, price, category, payment method), in order.
C12_RoundTrip ==
  \A rc \in WellFormedReceipts :
    (nb = "write" /\ nb_response = EncodedReply(rc)) =>
      /\ new_rows(receipt_data) = [raised |-> FALSE, rows |-> ExpenseRecords(rc)]
      /\ Len(expenses_df.rows) >= Len(rc.items)
      /\ LastRows(Len(rc.items)) = ExpenseRecords(rc)

\* Two items, one of them with price 0 and quantity 0, appended from their JSON text.
C12_Witness ==
  /\ nb = "write"
  /\ \E rc \in WellFormedReceipts :
       /\ nb_response = EncodedReply(rc)
       /\ Len(rc.items) = 2
       /\ rc.items[1].quantity = 0
       /\ rc.items[2].price = 4990
       /\ LastRows(2) = ExpenseRecords(rc)

\* C13: after a read-append-rewrite cycle the file still has the seven header
\* columns, and its rows are the rows it had followed by the receipt's rows,
\* for any prior ledger (the header-only one included) and any receipt (one
\* with zero items included).
C13_CycleKeepsLedger ==
  [][(nb = "write" /\ nb' = "call") =>
       /\ csv'.cols = Columns
       /\ csv'.rows = csv.rows \o to_csv(DataFrameOfRows(new_rows(receipt_data).rows)).rows]_vars

\* The rows alone: prior rows followed by the new rows, header aside.
C13_RowsKept ==
  [][(nb = "write" /\ nb' = "call") =>
       csv'.rows = csv.rows \o to_csv(DataFrameOfRows(new_rows(receipt_data).rows)).rows]_vars

\* A step of get_sum: the notebook's cells stand still.
GetSumStep == UNCHANGED <<csv, nb, nb_response, receipt_data, nb_end>>

\* C14: get_sum calls custom_sum only when the first tool call of the reply is
\* named 'custom_sum'; it then calls it on the parsed arguments and the table
\* it was given and ends as custom_sum ends, returning exactly its value. For
\* any other reply (another tool first, or no tool) custom_sum is not called
\* and get_sum returns no sum.
C14_RoutesToCustomSum ==
  [][GetSumStep =>
       /\ Called' =>
            /\ InvokedCustomSum'
            /\ time_range' = json_loads(FirstCall(response').arguments).value
            /\ cs' = custom_sum(time_range', expenses_df).end
            /\ cs'.outcome = "return" => gs' = GetSumEnd("sum", cs'.value, "none")
            /\ cs'.outcome = "raise" => gs' = GetSumEnd("raise", 0, cs'.exc)
       /\ ~ InvokedCustomSum' => (~ Called' /\ gs'.outcome # "sum")
       /\ gs'.outcome = "sum" => Called']_vars

\* get_sum has returned a positive sum that custom_sum computed for a reply
\* naming custom_sum.
C14_Witness ==
  /\ InvokedCustomSum
  /\ Called
  /\ cs.outcome = "return"
  /\ cs.value > 0
  /\ gs = GetSumEnd("sum", cs.value, "none")

\* get_sum has answered a reply whose first tool call is itemize_receipt and
\* whose second is custom_sum, without calling custom_sum.
C14_WitnessOtherTool ==
  /\ Answered
  /\ HasChoice
  /\ ~ response.choices[1].tool_calls.isNone
  /\ Len(response.choices[1].tool_calls.calls) = 2
  /\ FirstCall(response).name = "itemize_receipt"
  /\ ~ Called
  /\ gs = GetSumEnd("warning", 0, "none")

\* The table as first handed to custom_sum: what the file it came from reads as.
OriginalTable == read_csv(csv)

\* Before any call the caller's table is that original.
StartsAsOriginal == ~ Called => expenses_df = OriginalTable

\* C15: custom_sum is repeatable on one table object: whatever calls came
\* before on the same table, returning or failing, a call ends exactly as the
\* call with the same time_range on a fresh copy of the original table.
C15_Repeatable ==
  Called => cs = custom_sum(time_range, OriginalTable).end

\* A call has returned a positive sum on a table that calls have already
\* rewritten (its Date column holds Timestamps), and one more call with the
\* same time_range on that table returns it again.
C15_Witness ==
  /\ Called
  /\ expenses_df # OriginalTable
  /\ expenses_df = ConvertDateColumn(OriginalTable)
  /\ cs.outcome = "return"
  /\ cs.value > 0
  /\ custom_sum(time_range, expenses_df).end = cs
  /\ custom_sum(time_range, expenses_df).df = expenses_df

\* The same after a call that failed.
C15_WitnessFailed ==
  /\ Called
  /\ expenses_df # OriginalTable
  /\ cs = Raised("ValueError")
  /\ custom_sum(time_range, expenses_df).end = cs

====
